---- MODULE Spec2Model ----
(***************************************************************************)
(* Model of BolnaPulse (src/cli.py): the history store kept in             *)
(* status_history.json, the conditional feed fetcher and the polling loop  *)
(* `listen`.                                                               *)
(*                                                                         *)
(* Python values are encoded as follows.  A str is a tuple of              *)
(* one-character strings (so "" is << >>); None is the tuple <<"None">>,   *)
(* whose only element is not a character and which therefore differs from  *)
(* every str.  A dict is a record.  An operator that models a method which *)
(* can raise returns a record with a field `raised` naming the exception   *)
(* (NoExc when it returns normally).                                       *)
(***************************************************************************)
EXTENDS Integers, Sequences, FiniteSets, TLC

VARIABLES
    db,        \* the file DB_FILE: [state: absent | ok | corrupt, recs]
    history,   \* self.history
    seen_ids,  \* self.seen_ids
    cache,     \* self.cache: url -> [etag]
    pc,        \* position of the process / of the coroutine listen
    exc,       \* the uncaught exception that ended the process, or NoExc
    ui,        \* index into FEEDS of the `for url in FEEDS` loop
    feed,      \* local `feed`: NoFeed (None) or the parsed feed
    ei,        \* index of the `for entry in feed.entries` loop
    net,       \* the request in flight and the answer the network gives it
    got,       \* how the last fetch_update ended: the status received, or
               \* "exc" / "bodyexc" for an exception before / after it
    notes,     \* ids announced on stdout by this process, in order
    loaded,    \* number of records self.history held after __init__
    restarts,  \* number of times the process has been started again
    arg,       \* a call of one method on its own: the method and its input
    ret,       \* what that call returned, NotCalled before it
    tasks      \* the listen coroutines of one event loop sharing self

\* the variables of the single process running listen
loopvars == <<pc, exc, ui, feed, ei, net, got, loaded, restarts>>

\* the object and its file
selfvars == <<db, history, seen_ids, cache, notes>>

vars == <<db, history, seen_ids, cache, pc, exc, ui, feed, ei, net, got, notes,
          loaded, restarts, arg, ret, tasks>>

----------------------------------------------------------------------------
(* Bounds of the model *)

MaxEntries == 2     \* entries in one feed response
MaxRestarts == 1    \* process restarts in one behaviour
MaxInitLen == 1     \* records in the store file of an initial state
MaxWords == 2       \* words a title is put together from
MaxHtmlLen == 5     \* characters of a text given to clean_text
MaxRangeLen == 3    \* records in the history a range query reads

----------------------------------------------------------------------------
(* Values *)

None == <<"None">>
NoExc == "NoExc"

FEEDS == <<"https://status.openai.com/history.atom">>

\* ids of feed entries; entry.get("id") is None for an entry without id
EntryIds == {<<"a">>, <<"b">>}

PartialOutage ==
    <<"P","a","r","t","i","a","l"," ","O","u","t","a","g","e">>
AllSystemsNormal ==
    <<"A","l","l"," ","S","y","s","t","e","m","s"," ","N","o","r","m","a","l">>

\* titles of feed entries; entry.get("title") is None for an entry without
EntryTitles == {PartialOutage, AllSystemsNormal, None}

\* "<b>Resolved</b> " : a summary carrying markup
SummaryHtml ==
    <<"<","b",">","R","e","s","o","l","v","e","d","<","/","b",">"," ">>

\* summaries of feed entries; None stands for an entry without summary,
\* for which entry.get("summary", "No details") gives the default
EntrySummaries == {SummaryHtml}

FeedEntries == [id : EntryIds, title : EntryTitles, summary : EntrySummaries]

\* datetime.now(), as the fields strftime reads
Clock == {[Y |-> 2024, M |-> 6, D |-> 15, h |-> 9, m |-> 5, s |-> 0]}

\* values of the ETag response header; resp.headers.get("ETag") is None
\* when the header is missing, << >> when it is sent with an empty value
ETags == {None, << >>, <<"1">>, <<"2">>}

SeqsUpTo(S, n) == UNION {[1..k -> S] : k \in 0..n}

ParsedFeeds == SeqsUpTo(FeedEntries, MaxEntries)

\* what session.get / resp.text can produce for one request:
\*   kind "exc":  the request raises before a status is known
\*   kind "http": a response with a status and headers; bodyok = FALSE
\*                when reading the body (resp.text()) raises
Responses ==
    {[kind |-> "exc", status |-> 0, etag |-> None, bodyok |-> FALSE,
      entries |-> << >>]}
    \cup [kind : {"http"}, status : {200}, etag : ETags, bodyok : {TRUE},
          entries : ParsedFeeds]
    \cup [kind : {"http"}, status : {200}, etag : ETags, bodyok : {FALSE},
          entries : {<< >>}]
    \cup [kind : {"http"}, status : {304, 500}, etag : ETags,
          bodyok : {TRUE}, entries : {<< >>}]

NoRequest == [sent |-> FALSE]

\* ret before the call
NotCalled == [raised |-> "NotCalled"]

\* ret after a call that returned v
Returned(v) == [raised |-> NoExc, value |-> v]

Outcome(resp) ==
    IF resp.kind = "exc" THEN "exc"
    ELSE IF resp.status = 200 /\ ~ resp.bodyok THEN "bodyexc"
    ELSE IF resp.status = 200 THEN "200"
    ELSE IF resp.status = 304 THEN "304"
    ELSE "other"

----------------------------------------------------------------------------
(* Sequence helpers *)

IsPrefix(s, t) == Len(s) <= Len(t) /\ SubSeq(t, 1, Len(s)) = s

Ids(h) == {h[k].id : k \in 1..Len(h)}

UniqueIds(h) == \A j, k \in 1..Len(h) : h[j].id = h[k].id => j = k

Count(s, x) == Cardinality({k \in 1..Len(s) : s[k] = x})

----------------------------------------------------------------------------
(* Severity classifier *)

LowerChar(c) ==
    CASE c = "A" -> "a" [] c = "B" -> "b" [] c = "C" -> "c" [] c = "D" -> "d"
      [] c = "E" -> "e" [] c = "F" -> "f" [] c = "G" -> "g" [] c = "H" -> "h"
      [] c = "I" -> "i" [] c = "J" -> "j" [] c = "K" -> "k" [] c = "L" -> "l"
      [] c = "M" -> "m" [] c = "N" -> "n" [] c = "O" -> "o" [] c = "P" -> "p"
      [] c = "Q" -> "q" [] c = "R" -> "r" [] c = "S" -> "s" [] c = "T" -> "t"
      [] c = "U" -> "u" [] c = "V" -> "v" [] c = "W" -> "w" [] c = "X" -> "x"
      [] c = "Y" -> "y" [] c = "Z" -> "z" [] OTHER -> c

\* a classifier that compares the title as it is written
lower_unchanged(s) == s

lower(s) == [k \in 1..Len(s) |-> LowerChar(s[k])]

\* Python's `word in title` for two str
Contains(s, w) ==
    \E k \in 0..(Len(s) - Len(w)) : SubSeq(s, k + 1, k + Len(w)) = w

RedWords == {<<"d","o","w","n">>, <<"o","u","t","a","g","e">>,
             <<"c","r","i","t","i","c","a","l">>}
YellowWords == {<<"l","a","t","e","n","c","y">>,
                <<"d","e","g","r","a","d","e","d">>,
                <<"i","s","s","u","e">>}

Red == <<"r","e","d">>
Yellow == <<"y","e","l","l","o","w">>
Green == <<"g","r","e","e","n">>

\* None has no method lower: title.lower() raises AttributeError
get_color(title) ==
    IF title = None
    THEN [raised |-> "AttributeError", value |-> None]
    ELSE LET t == lower(title) IN
         [raised |-> NoExc,
          value |-> IF \E w \in RedWords : Contains(t, w) THEN Red
                    ELSE IF \E w \in YellowWords : Contains(t, w)
                         THEN Yellow
                         ELSE Green]

----------------------------------------------------------------------------
(* Text sanitizer *)

\* characters str.strip() removes (the ASCII ones)
Whitespace == {" ", "\t", "\n", "\r"}

\* the index of the first ">" behind s[1], 0 when there is none
FirstGt(s) ==
    IF \E j \in 2..Len(s) : s[j] = ">"
    THEN CHOOSE j \in 2..Len(s) :
           s[j] = ">" /\ \A k \in 2..(j - 1) : s[k] # ">"
    ELSE 0

\* a pattern without the "+", <[^>]>, which matches one-letter tags only
TagEnd_single(s) ==
    IF Len(s) >= 3 /\ s[1] = "<" /\ s[2] # ">" /\ s[3] = ">" THEN 3 ELSE 0

\* the end of a match of <[^>]+> at the start of s, 0 when there is none:
\* "<", at least one character other than ">", then ">"
TagEnd(s) ==
    IF Len(s) >= 3 /\ s[1] = "<" /\ FirstGt(s) >= 3 THEN FirstGt(s) ELSE 0

\* re.sub(r"<[^>]+>", "", s): the leftmost match is removed and the scan
\* goes on behind it
RECURSIVE re_sub_tags(_)
re_sub_tags(s) ==
    LET starts == {i \in 1..Len(s) :
                     s[i] = "<" /\ TagEnd(SubSeq(s, i, Len(s))) > 0}
    IN IF starts = {} THEN s
       ELSE LET i == CHOOSE m \in starts : \A k \in starts : m <= k
            IN SubSeq(s, 1, i - 1)
                 \o re_sub_tags(SubSeq(s, i + TagEnd(SubSeq(s, i, Len(s))),
                                       Len(s)))

\* the characters that str.strip() keeps at either end
Inked(s) == {i \in 1..Len(s) : s[i] \notin Whitespace}

lstrip(s) ==
    IF Inked(s) = {} THEN << >>
    ELSE SubSeq(s, CHOOSE m \in Inked(s) : \A k \in Inked(s) : m <= k, Len(s))

rstrip(s) ==
    IF Inked(s) = {} THEN << >>
    ELSE SubSeq(s, 1, CHOOSE m \in Inked(s) : \A k \in Inked(s) : m >= k)

strip(s) == rstrip(lstrip(s))

clean_text(html) == strip(re_sub_tags(html))

----------------------------------------------------------------------------
(* Clock formatting *)

DigitChar(d) ==
    CASE d = 0 -> "0" [] d = 1 -> "1" [] d = 2 -> "2" [] d = 3 -> "3"
      [] d = 4 -> "4" [] d = 5 -> "5" [] d = 6 -> "6" [] d = 7 -> "7"
      [] d = 8 -> "8" [] d = 9 -> "9"

\* n in decimal, zero-padded to w digits (%d, %m, %Y, %H, %M, %S)
Pad(n, w) == [k \in 1..w |-> DigitChar((n \div (10 ^ (w - k))) % 10)]

\* strftime("%d%m%Y")
strftime_date(now) == Pad(now.D, 2) \o Pad(now.M, 2) \o Pad(now.Y, 4)

\* strftime("%Y-%m-%d %H:%M:%S")
strftime_timestamp(now) ==
    Pad(now.Y, 4) \o <<"-">> \o Pad(now.M, 2) \o <<"-">> \o Pad(now.D, 2)
    \o <<" ">> \o Pad(now.h, 2) \o <<":">> \o Pad(now.m, 2) \o <<":">>
    \o Pad(now.s, 2)

----------------------------------------------------------------------------
(* Persistence layer *)

AbsentFile == [state |-> "absent", recs |-> << >>]
CorruptFile == [state |-> "corrupt", recs |-> << >>]

\* an encoder that writes str(v) for every value
to_json_str(v) ==
    [t |-> "string", s |-> IF v = None THEN <<"N","o","n","e">> ELSE v]

\* a Python value as a JSON value: None becomes null, a str a string
to_json(v) ==
    IF v = None THEN [t |-> "null", s |-> << >>]
    ELSE [t |-> "string", s |-> v]

\* a JSON value as a Python value
from_json(j) == IF j.t = "null" THEN None ELSE j.s

\* json.dump(self.history, f): the document, an array of objects that
\* keep the keys of the dicts in their order
json_dump(h) ==
    [state |-> "ok",
     recs |-> [k \in 1..Len(h) |->
                 [f \in DOMAIN h[k] |-> to_json(h[k][f])]]]

\* json.load(f) of a file that holds a document
json_load(d) ==
    [k \in 1..Len(d.recs) |->
       [f \in DOMAIN d.recs[k] |-> from_json(d.recs[k][f])]]

\* os.path.exists / json.load: an absent file gives [], a file that is not
\* a JSON document makes json.load raise JSONDecodeError
load_history(d) ==
    IF d.state = "absent" THEN [raised |-> NoExc, value |-> << >>]
    ELSE IF d.state = "ok" THEN [raised |-> NoExc, value |-> json_load(d)]
    ELSE [raised |-> "JSONDecodeError", value |-> << >>]

\* outcomes of `with open(DB_FILE, "w") as f: json.dump(...)`:
\*   "ok"     the document is written
\*   "open"   open() raises (permissions): the file is untouched
\*   "write"  open() has truncated the file and the write raises (disk
\*            full): the file holds a proper prefix of the document, which
\*            is not a JSON document
WriteOutcomes == {"ok", "open", "write"}

\* a store that puts the newest record first
history_prepend(h, entry_data) == <<entry_data>> \o h

\* the list after self.history.append(entry_data)
history_append(h, entry_data) == Append(h, entry_data)

\* a store that catches the failure of the write and returns normally
save_swallowing(h, d, entry_data, outcome) ==
    LET h2 == Append(h, entry_data) IN
    IF outcome = "ok"
    THEN [raised |-> NoExc, history |-> h2, db |-> json_dump(h2)]
    ELSE IF outcome = "open"
    THEN [raised |-> NoExc, history |-> h2, db |-> d]
    ELSE [raised |-> NoExc, history |-> h2, db |-> CorruptFile]

save_to_history(h, d, entry_data, outcome) ==
    LET h2 == history_append(h, entry_data) IN
    IF outcome = "ok"
    THEN [raised |-> NoExc, history |-> h2, db |-> json_dump(h2)]
    ELSE IF outcome = "open"
    THEN [raised |-> "OSError", history |-> h2, db |-> d]
    ELSE [raised |-> "OSError", history |-> h2, db |-> CorruptFile]

----------------------------------------------------------------------------
(* Feed fetcher *)

\* the truth value Python gives an etag in `if self.cache[url]["etag"]`
Truthy(etag) == etag # None /\ etag # << >>

\* the request headers, as the set of (name, value) pairs
request_headers(etag) ==
    IF Truthy(etag) THEN {<<"If-None-Match", etag>>} ELSE {}

\* the values fetch_update returns: None, or the result of
\* feedparser.parse, a dict that is never empty and so always true in
\* `if feed:`
NoFeed == [none |-> TRUE, entries |-> << >>]
parse(entries) == [none |-> FALSE, entries |-> entries]

\* a fetcher that takes over the ETag header of a 304 response
fetch_update_304_etag(etag, resp) ==
    IF resp.kind = "exc" THEN [etag |-> etag, feed |-> NoFeed]
    ELSE IF resp.status = 304 THEN [etag |-> resp.etag, feed |-> NoFeed]
    ELSE IF resp.status = 200
         THEN IF resp.bodyok
              THEN [etag |-> resp.etag, feed |-> parse(resp.entries)]
              ELSE [etag |-> resp.etag, feed |-> NoFeed]
    ELSE [etag |-> etag, feed |-> NoFeed]

\* a fetcher that never stores the ETag of a 200 response
fetch_update_no_etag(etag, resp) ==
    IF resp.kind = "exc" THEN [etag |-> etag, feed |-> NoFeed]
    ELSE IF resp.status = 304 THEN [etag |-> etag, feed |-> NoFeed]
    ELSE IF resp.status = 200
         THEN IF resp.bodyok
              THEN [etag |-> etag, feed |-> parse(resp.entries)]
              ELSE [etag |-> etag, feed |-> NoFeed]
    ELSE [etag |-> etag, feed |-> NoFeed]

\* fetch_update: the new cache etag and the value returned.  The etag is
\* assigned before the body is awaited, so it is kept when resp.text()
\* raises and the except clause turns the result into None
fetch_update(etag, resp) ==
    IF resp.kind = "exc" THEN [etag |-> etag, feed |-> NoFeed]
    ELSE IF resp.status = 304 THEN [etag |-> etag, feed |-> NoFeed]
    ELSE IF resp.status = 200
         THEN IF resp.bodyok
              THEN [etag |-> resp.etag, feed |-> parse(resp.entries)]
              ELSE [etag |-> resp.etag, feed |-> NoFeed]
    ELSE [etag |-> etag, feed |-> NoFeed]

----------------------------------------------------------------------------
(* The process *)

\* the longest status text kept: status_msg[:200]
MaxStatusLen == 200

\* a record that keeps the whole text
Truncate_none(s, n) == s

\* s[:n]
Truncate(s, n) == SubSeq(s, 1, IF Len(s) < n THEN Len(s) ELSE n)

\* entry.get("summary", "No details")
NoDetails == <<"N","o"," ","d","e","t","a","i","l","s">>
get_summary(entry) ==
    IF entry.summary = None THEN NoDetails ELSE entry.summary

\* the dict `data` built for a new entry
make_data(entry, color, now) ==
    [id |-> entry.id,
     date |-> strftime_date(now),
     timestamp |-> strftime_timestamp(now),
     title |-> entry.title,
     status |-> Truncate(clean_text(get_summary(entry)), MaxStatusLen),
     color |-> color]

\* a loop without the membership test
is_new_always(eid, seen) == TRUE

\* `eid not in self.seen_ids`
is_new(eid, seen) == eid \notin seen

\* `if self.seen_ids:` guarding the print
announces(seen) == seen # {}

StoreRecords ==
    UNION {{make_data(e, get_color(e.title).value, now) : now \in Clock} :
             e \in {x \in FeedEntries : x.title # None}}

InitialStores ==
    {AbsentFile, CorruptFile}
    \cup {json_dump(h) :
            h \in {s \in SeqsUpTo(StoreRecords, MaxInitLen) :
                     Len(s) > 0 /\ UniqueIds(s)}}

Blank ==
    /\ history = << >>
    /\ seen_ids = {}
    /\ cache = [u \in {FEEDS[k] : k \in 1..Len(FEEDS)} |-> [etag |-> None]]
    /\ pc = "boot"
    /\ exc = NoExc
    /\ ui = 1
    /\ feed = NoFeed
    /\ ei = 1
    /\ net = NoRequest
    /\ got = "none"
    /\ notes = << >>
    /\ loaded = 0

\* no method is called on its own, no further coroutine runs
Idle ==
    /\ arg = [fn |-> "none"]
    /\ ret = NotCalled
    /\ tasks = << >>

Init ==
    /\ db \in InitialStores
    /\ restarts = 0
    /\ Blank
    /\ Idle

\* BolnaPulse() followed by run_cli with the command listen
Construct ==
    /\ pc = "boot"
    /\ LET r == load_history(db) IN
       IF r.raised # NoExc
       THEN /\ pc' = "crashed"
            /\ exc' = r.raised
            /\ UNCHANGED <<history, seen_ids, loaded>>
       ELSE /\ history' = r.value
            /\ seen_ids' = Ids(r.value)
            /\ loaded' = Len(r.value)
            /\ pc' = "fetch"
            /\ exc' = NoExc
    /\ UNCHANGED <<db, cache, ui, feed, ei, net, got, notes, restarts>>
    /\ UNCHANGED <<arg, ret, tasks>>

\* the position after the body of `for url in FEEDS` for FEEDS[u]; the
\* local `feed` is not read again before fetch_update assigns it, and is
\* not kept
AfterUrl(u) ==
    /\ feed' = NoFeed
    /\ IF u < Len(FEEDS)
       THEN /\ pc' = "fetch"
            /\ ui' = u + 1
       ELSE /\ pc' = "sleep"
            /\ ui' = 1

\* fetch_update up to its await: the request goes out with the headers
\* built from the cache, and the network decides what will come back
SendRequest ==
    /\ pc = "fetch"
    /\ \E resp \in Responses :
         net' = [sent |-> TRUE, url |-> FEEDS[ui],
                 headers |-> request_headers(cache[FEEDS[ui]].etag),
                 resp |-> resp]
    /\ pc' = "await"
    /\ UNCHANGED <<db, history, seen_ids, cache, exc, ui, feed, ei, got,
                   notes, loaded, restarts, arg, ret, tasks>>

\* the rest of fetch_update and the test `if feed:`
Receive ==
    /\ pc = "await"
    /\ LET url == FEEDS[ui]
           r == fetch_update(cache[url].etag, net.resp)
       IN /\ cache' = [cache EXCEPT ![url].etag = r.etag]
          /\ ei' = 1
          /\ IF ~ r.feed.none /\ Len(r.feed.entries) > 0
             THEN /\ feed' = r.feed
                  /\ pc' = "entries"
                  /\ ui' = ui
             ELSE AfterUrl(ui)
    /\ got' = Outcome(net.resp)
    /\ net' = NoRequest
    /\ UNCHANGED <<db, history, seen_ids, exc, notes, loaded, restarts>>
    /\ UNCHANGED <<arg, ret, tasks>>

\* the position after the body of `for entry in feed.entries` for entry ei
AfterEntry ==
    IF ei < Len(feed.entries)
    THEN /\ ei' = ei + 1
         /\ pc' = "entries"
         /\ UNCHANGED <<ui, feed>>
    ELSE /\ ei' = 1
         /\ AfterUrl(ui)

\* one iteration of `for entry in feed.entries`
ProcessEntry ==
    /\ pc = "entries"
    /\ LET entry == feed.entries[ei]
           eid == entry.id
           color == get_color(entry.title)
       IN IF ~ is_new(eid, seen_ids)
          THEN /\ AfterEntry
               /\ UNCHANGED <<db, history, seen_ids, exc, notes>>
          ELSE IF color.raised # NoExc
          THEN /\ pc' = "crashed"
               /\ exc' = color.raised
               /\ UNCHANGED <<db, history, seen_ids, notes, ui, ei, feed>>
          ELSE \E outcome \in WriteOutcomes, now \in Clock :
               LET data == make_data(entry, color.value, now)
                   s == save_to_history(history, db, data, outcome)
               IN /\ notes' = IF announces(seen_ids)
                              THEN Append(notes, eid) ELSE notes
                  /\ history' = s.history
                  /\ db' = s.db
                  /\ IF s.raised # NoExc
                     THEN /\ pc' = "crashed"
                          /\ exc' = s.raised
                          /\ UNCHANGED <<seen_ids, ui, ei, feed>>
                     ELSE /\ seen_ids' = seen_ids \cup {eid}
                          /\ exc' = NoExc
                          /\ AfterEntry
    /\ UNCHANGED <<cache, net, got, loaded, restarts, arg, ret, tasks>>

\* asyncio.sleep(60) and the jump back to `while True`
Sleep ==
    /\ pc = "sleep"
    /\ pc' = "fetch"
    /\ UNCHANGED <<db, history, seen_ids, cache, exc, ui, feed, ei, net,
                   got, notes, loaded, restarts, arg, ret, tasks>>

\* the process ends (an uncaught exception or an external signal) and the
\* program is started again: only the file survives
Restart ==
    /\ pc # "boot"
    /\ restarts < MaxRestarts
    /\ restarts' = restarts + 1
    /\ history' = << >>
    /\ seen_ids' = {}
    /\ cache' = [u \in DOMAIN cache |-> [etag |-> None]]
    /\ pc' = "boot"
    /\ exc' = NoExc
    /\ ui' = 1
    /\ feed' = NoFeed
    /\ ei' = 1
    /\ net' = NoRequest
    /\ got' = "none"
    /\ notes' = << >>
    /\ loaded' = 0
    /\ UNCHANGED <<db, arg, ret, tasks>>

Next ==
    \/ Construct
    \/ SendRequest
    \/ Receive
    \/ ProcessEntry
    \/ Sleep
    \/ Restart

Spec == Init /\ [][Next]_vars

----------------------------------------------------------------------------
(* Several listen coroutines on one BolnaPulse object *)

\* the coroutines that run listen on the same object and the same event
\* loop
Loops == {1, 2}

\* a coroutine at the top of `for url in FEEDS`
AtFetch == [pc |-> "fetch", resp |-> NoRequest]

\* what the network gives the coroutines: the responses that carry one
\* ETag and entries with a title
ConcResponses ==
    {r \in Responses :
       /\ r.kind = "http" => r.etag = <<"1">> /\ r.status # 500
       /\ \A k \in 1..Len(r.entries) : r.entries[k].title = PartialOutage}

\* the store as the constructor found it, readable
ConcStores == InitialStores \ {CorruptFile}

InitConc ==
    /\ db \in ConcStores
    /\ history = load_history(db).value
    /\ seen_ids = Ids(history)
    /\ loaded = Len(history)
    /\ cache = [u \in {FEEDS[k] : k \in 1..Len(FEEDS)} |-> [etag |-> None]]
    /\ notes = << >>
    /\ tasks = [t \in Loops |-> AtFetch]
    /\ pc = "gather"
    /\ exc = NoExc
    /\ ui = 1
    /\ feed = NoFeed
    /\ ei = 1
    /\ net = NoRequest
    /\ got = "none"
    /\ restarts = 0
    /\ arg = [fn |-> "none"]
    /\ ret = NotCalled

\* the whole of `for entry in feed.entries` from entry k on, run on the
\* state st of the shared object; outs[k] is the outcome of the write for
\* entry k. No line of the body awaits, so no other coroutine runs before
\* the loop is left, by its end or by an exception.
RECURSIVE run_entries(_, _, _, _, _)
run_entries(entries, k, st, outs, now) ==
    IF k > Len(entries) \/ st.raised # NoExc THEN st
    ELSE LET entry == entries[k]
             eid == entry.id
             color == get_color(entry.title)
         IN IF ~ is_new(eid, st.seen_ids)
            THEN run_entries(entries, k + 1, st, outs, now)
            ELSE IF color.raised # NoExc
            THEN [st EXCEPT !.raised = color.raised]
            ELSE LET data == make_data(entry, color.value, now)
                     s == save_to_history(st.history, st.db, data, outs[k])
                 IN run_entries(entries, k + 1,
                      [history |-> s.history,
                       db |-> s.db,
                       notes |-> IF announces(st.seen_ids)
                                 THEN Append(st.notes, eid) ELSE st.notes,
                       seen_ids |-> IF s.raised = NoExc
                                    THEN st.seen_ids \cup {eid}
                                    ELSE st.seen_ids,
                       raised |-> s.raised],
                      outs, now)

\* listen up to `await session.get`: the coroutine is suspended
TaskGet(t) ==
    /\ tasks[t].pc = "fetch"
    /\ tasks' = [tasks EXCEPT ![t].pc = "get"]
    /\ UNCHANGED <<loopvars, selfvars, arg, ret>>

\* session.get is over: the status is tested and the ETag stored, then the
\* coroutine is suspended in `await resp.text()`; without a body to read
\* fetch_update returns None and the coroutine goes on to asyncio.sleep
TaskHeaders(t) ==
    /\ tasks[t].pc = "get"
    /\ \E resp \in ConcResponses :
         IF resp.kind = "http" /\ resp.status = 200
         THEN /\ cache' = [cache EXCEPT ![FEEDS[1]].etag = resp.etag]
              /\ tasks' = [tasks EXCEPT ![t] = [pc |-> "text", resp |-> resp]]
         ELSE /\ cache' = [cache EXCEPT ![FEEDS[1]].etag =
                             fetch_update(cache[FEEDS[1]].etag, resp).etag]
              /\ tasks' = [tasks EXCEPT ![t].pc = "sleep"]
    /\ UNCHANGED <<db, history, seen_ids, notes, loopvars, arg, ret>>

\* resp.text() is over: the feed is parsed and every entry of it is
\* processed before the coroutine is suspended again, in asyncio.sleep; an
\* exception ends this coroutine, the others stay on the event loop
TaskEntries(t) ==
    /\ tasks[t].pc = "text"
    /\ LET r == fetch_update(cache[FEEDS[1]].etag, tasks[t].resp)
           entries == r.feed.entries
       IN \E outs \in [1..Len(entries) -> WriteOutcomes], now \in Clock :
            LET st == run_entries(entries, 1,
                        [history |-> history, db |-> db, notes |-> notes,
                         seen_ids |-> seen_ids, raised |-> NoExc],
                        outs, now)
            IN /\ history' = st.history
               /\ db' = st.db
               /\ notes' = st.notes
               /\ seen_ids' = st.seen_ids
               /\ tasks' = [tasks EXCEPT ![t] =
                              [pc |-> IF st.raised # NoExc
                                      THEN "raised" ELSE "sleep",
                               resp |-> NoRequest]]
    /\ UNCHANGED <<cache, loopvars, arg, ret>>

\* asyncio.sleep(60) is over
TaskSleep(t) ==
    /\ tasks[t].pc = "sleep"
    /\ tasks' = [tasks EXCEPT ![t].pc = "fetch"]
    /\ UNCHANGED <<loopvars, selfvars, arg, ret>>

NextConc ==
    \/ \E t \in Loops : TaskGet(t)
    \/ \E t \in Loops : TaskHeaders(t)
    \/ \E t \in Loops : TaskEntries(t)
    \/ \E t \in Loops : TaskSleep(t)

ConcSpec == InitConc /\ [][NextConc]_vars

----------------------------------------------------------------------------
(* Methods called on their own *)

RECURSIVE Concat(_)
Concat(ss) == IF ss = << >> THEN << >> ELSE ss[1] \o Concat(Tail(ss))

\* words of titles: the keywords in several spellings, a keyword cut in
\* two ("dow" + "n"), and text without keyword
TitleWords ==
    {<<"d","o","w","n">>, <<"O","u","t","a","g","e">>,
     <<"C","R","I","T","I","C","A","L">>, <<"l","a","t","e","n","c","y">>,
     <<"D","e","g","r","a","d","e","d">>, <<"I","S","S","U","E">>,
     <<"d","o","w">>, <<"n">>, <<"O","K">>, <<" ">>, <<"i","s","s","u">>}

Titles == {Concat(ws) : ws \in SeqsUpTo(TitleWords, MaxWords)} \cup {None}

HtmlChars == {"<", ">", "a", " "}

\* "<p>Hello <b>World</b></p>"
HelloWorldHtml ==
    <<"<","p",">","H","e","l","l","o"," ","<","b",">","W","o","r","l","d",
      "<","/","b",">","<","/","p",">">>

Htmls == SeqsUpTo(HtmlChars, MaxHtmlLen) \cup {HelloWorldHtml, SummaryHtml}

\* int(s) for a str: the number a digit string denotes (leading zeros
\* allowed), ValueError for a str that is not a numeral
IsDigit(c) == c \in {"0", "1", "2", "3", "4", "5", "6", "7", "8", "9"}

DigitValue(c) ==
    CASE c = "0" -> 0 [] c = "1" -> 1 [] c = "2" -> 2 [] c = "3" -> 3
      [] c = "4" -> 4 [] c = "5" -> 5 [] c = "6" -> 6 [] c = "7" -> 7
      [] c = "8" -> 8 [] c = "9" -> 9

RECURSIVE digits_value(_)
digits_value(s) ==
    IF s = << >> THEN 0
    ELSE 10 * digits_value(SubSeq(s, 1, Len(s) - 1)) + DigitValue(s[Len(s)])

int(s) ==
    IF s # << >> /\ \A k \in 1..Len(s) : IsDigit(s[k])
    THEN [raised |-> NoExc, value |-> digits_value(s)]
    ELSE [raised |-> "ValueError", value |-> 0]

\* a test that leaves out the end of the range
in_range_open(lo, d, hi) == lo <= d /\ d < hi

\* int(args.start) <= int(e['date']) <= int(args.end)
in_range(lo, d, hi) == lo <= d /\ d <= hi

\* f"[{e['timestamp']}] {e['title']}"
range_line(e) == <<"[">> \o e.timestamp \o <<"]", " ">> \o e.title

\* the command range: the lines printed for history h, or the exception
\* of the first int() that fails.  The chained comparison evaluates
\* int(args.end) only when int(args.start) <= int(e['date']) holds
RECURSIVE run_range(_, _, _)
run_range(h, start, end) ==
    IF h = << >> THEN Returned(<< >>)
    ELSE LET e == h[1]
             lo == int(start)
             d == int(e.date)
             hi == int(end)
         IN IF lo.raised # NoExc THEN lo
            ELSE IF d.raised # NoExc THEN d
            ELSE IF lo.value <= d.value /\ hi.raised # NoExc THEN hi
            ELSE LET rest == run_range(Tail(h), start, end) IN
                 IF rest.raised # NoExc THEN rest
                 ELSE IF hi.raised = NoExc
                         /\ in_range(lo.value, d.value, hi.value)
                      THEN Returned(<<range_line(e)>> \o rest.value)
                      ELSE rest

\* the days on which the records of a queried history were ingested:
\* 1 Jan 2024, 15 Jun 2024, 31 Dec 2024 and 2 Jan 2023
RangeClock ==
    {[Y |-> 2024, M |-> 1, D |-> 1, h |-> 9, m |-> 5, s |-> 0],
     [Y |-> 2024, M |-> 6, D |-> 15, h |-> 9, m |-> 5, s |-> 0],
     [Y |-> 2024, M |-> 12, D |-> 31, h |-> 9, m |-> 5, s |-> 0],
     [Y |-> 2023, M |-> 1, D |-> 2, h |-> 9, m |-> 5, s |-> 0]}

\* one record per day, its id the date
RangeRecords ==
    {make_data([id |-> strftime_date(now), title |-> PartialOutage,
                summary |-> None], Red, now) : now \in RangeClock}

RangeHistories ==
    {h \in SeqsUpTo(RangeRecords, MaxRangeLen) : UniqueIds(h)}

\* the arguments start and end: the dates, and a word that is no numeral
RangeArgs == {strftime_date(now) : now \in RangeClock} \cup {<<"x">>}

\* records given to _save_to_history: those listen builds, also for an entry
\* without id
SaveRecords ==
    StoreRecords
    \cup {[r EXCEPT !.id = None] : r \in StoreRecords}

SaveHistories ==
    {h \in SeqsUpTo(SaveRecords, MaxInitLen) : UniqueIds(h)}

\* n times the letter x
Xs(n) == [k \in 1..n |-> "x"]

\* summaries around the limit of 200 characters, with and without markup
\* and blanks, and None for an entry without summary
DataSummaries ==
    {None, << >>, SummaryHtml, Xs(199), Xs(200), Xs(201), Xs(250),
     <<"<", "b", ">">> \o Xs(201) \o <<"<", "/", "b", ">">>,
     <<" ">> \o Xs(200) \o <<" ">>,
     Xs(150) \o <<"<", "b", "r", ">">> \o Xs(150),
     Xs(199) \o <<" ", "x">>, Xs(210) \o <<"<">>}

DataTitles ==
    {None, << >>, PartialOutage, AllSystemsNormal,
     <<"H","i","g","h"," ","l","a","t","e","n","c","y">>}

DataEntries == [id : EntryIds, title : DataTitles, summary : DataSummaries]

CallInputs ==
    [fn : {"make_data"}, entry : DataEntries, now : Clock]
    \cup [fn : {"save_load"}, h : SaveHistories, e : SaveRecords,
          outcome : WriteOutcomes]
    \cup [fn : {"get_color"}, x : Titles]
    \cup [fn : {"clean_text"}, x : Htmls]
    \cup [fn : {"range"}, h : RangeHistories, start : RangeArgs,
          end : RangeArgs]

InitCall ==
    /\ db = AbsentFile
    /\ restarts = 0
    /\ Blank
    /\ tasks = << >>
    /\ ret = NotCalled
    /\ arg \in CallInputs

CallGetColor ==
    /\ arg.fn = "get_color"
    /\ ret = NotCalled
    /\ ret' = get_color(arg.x)
    /\ UNCHANGED <<loopvars, selfvars, arg, tasks>>

CallCleanText ==
    /\ arg.fn = "clean_text"
    /\ ret = NotCalled
    /\ ret' = Returned(clean_text(arg.x))
    /\ UNCHANGED <<loopvars, selfvars, arg, tasks>>

\* run_cli with the command range on an object whose history is arg.h
CallRange ==
    /\ arg.fn = "range"
    /\ ret = NotCalled
    /\ ret' = run_range(arg.h, arg.start, arg.end)
    /\ UNCHANGED <<loopvars, selfvars, arg, tasks>>

\* _save_to_history(arg.e) on an object whose history is arg.h and whose
\* file holds that history, then _load_history of the file as a new
\* process does it
CallSaveLoad ==
    /\ arg.fn = "save_load"
    /\ ret = NotCalled
    /\ LET s == save_to_history(arg.h, json_dump(arg.h), arg.e, arg.outcome)
           l == load_history(s.db)
       IN ret' = IF s.raised # NoExc THEN [raised |-> s.raised]
                 ELSE IF l.raised # NoExc THEN [raised |-> l.raised]
                 ELSE Returned([history |-> s.history, loaded |-> l.value])
    /\ UNCHANGED <<loopvars, selfvars, arg, tasks>>

\* the building of `data` in listen for the entry arg.entry
CallMakeData ==
    /\ arg.fn = "make_data"
    /\ ret = NotCalled
    /\ LET color == get_color(arg.entry.title)
       IN ret' = IF color.raised # NoExc THEN [raised |-> color.raised]
                 ELSE Returned(make_data(arg.entry, color.value, arg.now))
    /\ UNCHANGED <<loopvars, selfvars, arg, tasks>>

NextCall ==
    \/ CallMakeData
    \/ CallSaveLoad
    \/ CallGetColor
    \/ CallCleanText
    \/ CallRange

CallSpec == InitCall /\ [][NextCall]_vars

----------------------------------------------------------------------------
(* Properties *)

Range(s) == {s[k] : k \in 1..Len(s)}
Last(s) == s[Len(s)]
Url == FEEDS[ui]

\* a step of fetch_update after its await, i.e. the handling of the answer
ReceiveStep == pc = "await" /\ pc' # "boot"

\* C1: no two records of the history share an id, whatever the feeds
\* return and however often, starting from a store with unique ids.
C1_UniqueIds == UniqueIds(history)

\* an entry whose id the store already held came back in a response and
\* was skipped: nothing was added by this process
C1_Witness ==
    /\ pc = "entries"
    /\ ei = 2
    /\ loaded >= 1
    /\ Len(history) = loaded
    /\ feed.entries[1].id \in Ids(history)

\* C2: the notification fires exactly once for every record newly accepted
\* into the store by the polling loop, and never for an entry whose id is
\* already seen; from an empty store two new entries give two notifications.
C2_NotifyOncePerAccepted ==
    /\ \A k \in (loaded + 1)..Len(history) :
         history[k].id \in seen_ids => Count(notes, history[k].id) = 1
    /\ \A j \in 1..Len(notes) :
         /\ notes[j] \notin Ids(SubSeq(history, 1, loaded))
         /\ Count(notes, notes[j]) = 1

\* C3: no notification is emitted for a record whose durable write fails.
C3_NoNotifyOnFailedWrite ==
    exc = "OSError" => Last(history).id \notin Range(notes)

\* C4: the history is append-only (across every step of the process the
\* old history is a prefix of the new one) and the sequence written to the
\* store file is the history, oldest first.
C4_AppendOnly ==
    [][pc' # "boot" =>
         /\ IsPrefix(history, history')
         /\ (db' # db /\ db'.state = "ok" => json_load(db') = history')
         /\ (db'.state = "ok" => IsPrefix(json_load(db'), history'))]_vars

\* a record was appended behind the records loaded at startup and written
C4_Witness ==
    /\ loaded >= 1
    /\ Len(history) > loaded
    /\ db = json_dump(history)
    /\ pc = "sleep"

\* C5: every id in seen_ids belongs to a record present in the store file,
\* also in states reached through a failed write.
C5_SeenIsDurable ==
    \A id \in seen_ids : db.state = "ok" /\ id \in Ids(json_load(db))

\* C6: a failure of the write in _save_to_history reaches the caller and
\* ends listen: whenever the record appended last is not in the store
\* file, the process has stopped with the exception and the id is not seen.
C6_WriteFailurePropagates ==
    (pc # "boot" /\ Len(history) > loaded /\ db # json_dump(history))
        => /\ pc = "crashed"
           /\ exc = "OSError"
           /\ Last(history).id \notin seen_ids

\* the write of a new record failed
C6_Witness ==
    /\ pc = "crashed"
    /\ exc = "OSError"
    /\ Len(history) = loaded + 1
    /\ db.state # "ok"

\* C7: _load_history returns the empty list when the store file is absent
\* and also when it is present but unparseable; startup completes with an
\* empty history and an empty seen set.
C7_LoadRecovers ==
    [][(pc = "boot" /\ db.state \in {"absent", "corrupt"})
         => (pc' = "fetch" /\ history' = << >> /\ seen_ids' = {})]_vars

\* C8: a fetch that receives 304 leaves the endpoint's etag unchanged and
\* returns no entries: no record, no write, no notification.
C8_NotModified ==
    [][(ReceiveStep /\ net.resp.kind = "http" /\ net.resp.status = 304)
         => /\ cache' = cache
            /\ feed' = NoFeed
            /\ pc' \in {"fetch", "sleep"}
            /\ UNCHANGED <<history, db, seen_ids, notes>>]_vars

\* a 304 was received while a token was cached, and the token is kept
C8_Witness ==
    /\ got = "304"
    /\ pc = "sleep"
    /\ Truthy(cache[FEEDS[1]].etag)

\* C9: a fetch that receives a 200 response sets the endpoint's etag to the
\* ETag of that response and returns the parsed entries; a request carries
\* exactly the cached token in If-None-Match when there is one and no
\* conditional header when there is none.
C9_FreshResponse ==
    [][/\ (ReceiveStep /\ net.resp.kind = "http" /\ net.resp.status = 200)
          => cache'[Url].etag = net.resp.etag
       /\ (ReceiveStep /\ net.resp.kind = "http" /\ net.resp.status = 200
             /\ net.resp.bodyok)
          => IF Len(net.resp.entries) > 0
             THEN pc' = "entries" /\ feed' = parse(net.resp.entries)
             ELSE pc' \in {"fetch", "sleep"}
       /\ (pc = "fetch" /\ pc' = "await")
          => net'.headers =
               IF cache[Url].etag \in {None, << >>}
               THEN {}
               ELSE {<<"If-None-Match", cache[Url].etag>>}]_vars

\* the request after a 200 response carries the token that response set
C9_Witness ==
    /\ pc = "await"
    /\ got = "200"
    /\ net.headers = {<<"If-None-Match", <<"2">> >>}

\* C10: a fetch that ends in a transport failure or in a status other than
\* 200 and 304 is no update: listen goes on, and history, store file, seen
\* set and etag are unchanged.
C10_FailedFetchNoUpdate ==
    [][(ReceiveStep /\ (\/ net.resp.kind = "exc"
                        \/ net.resp.status \notin {200, 304}
                        \/ ~ net.resp.bodyok))
         => /\ pc' \in {"fetch", "sleep"}
            /\ UNCHANGED <<history, db, seen_ids, cache>>]_vars

\* the records a startup can get from the file d
Stored(d) ==
    IF load_history(d).raised = NoExc THEN load_history(d).value ELSE << >>

\* C11: a restart at any point loses and duplicates nothing: the records
\* the next startup can get from the file are every record durably appended
\* before the restart (the history in memory, without its last record when
\* the write of that record failed), in the same order, and the history
\* never holds an id twice afterwards.
C11_RestartLossless ==
    [][/\ (pc # "boot" /\ pc' = "boot" /\ exc # "JSONDecodeError")
          => Stored(db') =
               IF exc = "OSError"
               THEN SubSeq(history, 1, Len(history) - 1)
               ELSE history
       /\ UniqueIds(history')]_vars

Called(fn) == arg.fn = fn /\ ret.raised # "NotCalled"

Lowers == <<"a","b","c","d","e","f","g","h","i","j","k","l","m",
            "n","o","p","q","r","s","t","u","v","w","x","y","z">>
Uppers == <<"A","B","C","D","E","F","G","H","I","J","K","L","M",
            "N","O","P","Q","R","S","T","U","V","W","X","Y","Z">>

\* w (in lower case) occurs in t, each letter in either case
OccursAnyCase(t, w) ==
    \E k \in 0..(Len(t) - Len(w)) :
      \A j \in 1..Len(w) :
        \/ t[k + j] = w[j]
        \/ \E n \in 1..26 : w[j] = Lowers[n] /\ t[k + j] = Uppers[n]

\* C12: for every title text get_color returns red when the title
\* contains, in any case, one of down/outage/critical; otherwise yellow
\* when it contains one of latency/degraded/issue; otherwise green.
C12_Classify ==
    (Called("get_color") /\ arg.x # None)
      => /\ ret.raised = NoExc
         /\ ret.value =
              IF \E w \in {<<"d","o","w","n">>, <<"o","u","t","a","g","e">>,
                           <<"c","r","i","t","i","c","a","l">>} :
                   OccursAnyCase(arg.x, w)
              THEN <<"r","e","d">>
              ELSE IF \E w \in {<<"l","a","t","e","n","c","y">>,
                                <<"d","e","g","r","a","d","e","d">>,
                                <<"i","s","s","u","e">>} :
                        OccursAnyCase(arg.x, w)
                   THEN <<"y","e","l","l","o","w">>
                   ELSE <<"g","r","e","e","n">>

\* "DegradedOutage", a yellow and a red keyword in mixed case, gave red
C12_Witness ==
    /\ Called("get_color")
    /\ arg.x = <<"D","e","g","r","a","d","e","d","O","u","t","a","g","e">>
    /\ ret.value = Red

\* C13: get_color never fails and gives green for an absent or empty
\* title, so an entry without title is ingested by listen with color green
\* and does not stop the loop.
C13_TitlelessIngested ==
    [][(pc = "entries" /\ pc' # "boot"
          /\ feed.entries[ei].title = None
          /\ feed.entries[ei].id \notin seen_ids)
         => /\ exc' # "AttributeError"
            /\ Len(history') = Len(history) + 1
            /\ Last(history').id = feed.entries[ei].id
            /\ Last(history').color = Green]_vars

\* C16: clean_text is idempotent, and it strips all well-formed tags:
\* "<p>Hello <b>World</b></p>" gives "Hello World".
C16_Sanitize ==
    Called("clean_text")
      => /\ clean_text(ret.value) = ret.value
         /\ (arg.x = HelloWorldHtml
               => ret.value = <<"H","e","l","l","o"," ","W","o","r","l","d">>)

\* the example text was cleaned
C16_Witness ==
    /\ Called("clean_text")
    /\ arg.x = HelloWorldHtml
    /\ ret.value # arg.x

\* the number an 8-digit numeral denotes, digit by digit
Numeral8(d) ==
    LET v(c) == CHOOSE n \in 0..9 :
                  c = <<"0","1","2","3","4","5","6","7","8","9">>[n + 1]
    IN v(d[1]) * 10000000 + v(d[2]) * 1000000 + v(d[3]) * 100000
       + v(d[4]) * 10000 + v(d[5]) * 1000 + v(d[6]) * 100 + v(d[7]) * 10
       + v(d[8])

D01012024 == <<"0","1","0","1","2","0","2","4">>
D15062024 == <<"1","5","0","6","2","0","2","4">>
D31122024 == <<"3","1","1","2","2","0","2","4">>

InQuery(e) ==
    /\ Numeral8(arg.start) <= Numeral8(e.date)
    /\ Numeral8(e.date) <= Numeral8(arg.end)

\* C14: the range query returns, in insertion order, exactly the records
\* whose 8-digit date numeral d satisfies start <= d <= end as integers,
\* both bounds included; for records dated 01012024, 15062024, 31122024 the
\* range 01012024..15062024 returns exactly the first two.
C14_RangeQuery ==
    (Called("range") /\ Len(arg.start) = 8 /\ Len(arg.end) = 8)
      => /\ ret.raised = NoExc
         /\ LET hits == SelectSeq(arg.h, InQuery)
            IN /\ Len(ret.value) = Len(hits)
               /\ \A k \in 1..Len(hits) : ret.value[k] = range_line(hits[k])
         /\ ([k \in 1..Len(arg.h) |-> arg.h[k].date]
                 = <<D01012024, D15062024, D31122024>>
               /\ arg.start = D01012024 /\ arg.end = D15062024)
            => ret.value = <<range_line(arg.h[1]), range_line(arg.h[2])>>

\* the example query was run and printed two lines
C14_Witness ==
    /\ Called("range")
    /\ [k \in 1..Len(arg.h) |-> arg.h[k].date]
         = <<D01012024, D15062024, D31122024>>
    /\ arg.start = D01012024
    /\ arg.end = D15062024
    /\ Len(ret.value) = 2

\* C15: after every successful _save_to_history of a record e the file
\* holds the complete history, so _load_history of it gives a list equal
\* to the history in memory, whose last element is e with all its fields.
C15_RoundTrip ==
    (Called("save_load") /\ arg.outcome = "ok")
      => /\ ret.raised = NoExc
         /\ ret.value.loaded = ret.value.history
         /\ Len(ret.value.loaded) = Len(arg.h) + 1
         /\ SubSeq(ret.value.loaded, 1, Len(arg.h)) = arg.h
         /\ Last(ret.value.loaded) = arg.e
         /\ \A f \in {"id", "date", "timestamp", "title", "status", "color"} :
              Last(ret.value.loaded)[f] = arg.e[f]

\* a record without id was appended behind another one and read back
C15_Witness ==
    /\ Called("save_load")
    /\ arg.outcome = "ok"
    /\ arg.e.id = None
    /\ Len(arg.h) = 1
    /\ Len(ret.value.loaded) = 2

\* C17: the entries of a response are taken in the order of the feed, and
\* for two new entries the record and the notification of the earlier one
\* come before those of the later one: every new entry gets its record
\* behind all records and its notification behind all notifications.
C17_FeedOrder ==
    [][(pc = "entries" /\ pc' # "boot")
         => /\ (history' # history
                  => /\ history' = Append(history, Last(history'))
                     /\ Last(history').id = feed.entries[ei].id
                     /\ notes' = Append(notes, feed.entries[ei].id))
            /\ (history' = history => notes' = notes)
            /\ (pc' = "entries" => ei' = ei + 1 /\ feed' = feed)]_vars

\* C18: the polling loop repeats whatever the feeds return: nothing a feed
\* returns takes the process to a terminal state; it ends only on a failed
\* access to the store, which is left to propagate.
C18_NoTerminalState ==
    pc = "crashed" => exc \in {"JSONDecodeError", "OSError"}

\* C19: every record built by listen has a color among green, yellow and
\* red and a status of at most 200 characters, whatever the title and the
\* summary of the entry.
C19_RecordShape ==
    (Called("make_data") /\ ret.raised = NoExc)
      => /\ ret.value.color \in {<<"g","r","e","e","n">>,
                                 <<"y","e","l","l","o","w">>,
                                 <<"r","e","d">>}
         /\ Len(ret.value.status) <= 200
         /\ ret.value.id = arg.entry.id

\* a summary of more than 200 characters behind its markup was cut to 200
C19_Witness ==
    /\ Called("make_data")
    /\ ret.raised = NoExc
    /\ Len(clean_text(arg.entry.summary)) > 200
    /\ Len(ret.value.status) = 200
    /\ ret.value.color = Yellow

\* C20: no line between the membership test and the marking of the id
\* awaits, so that even with several polling loops on one store object no
\* id is appended to the history twice.
C20_NoDoubleAppend ==
    \A id \in EntryIds :
      Cardinality({k \in 1..Len(history) : history[k].id = id}) <= 1

====
